---- MODULE Spec2Model ----
(***************************************************************************)
(* Arithmetic expression evaluator of src/main.cpp: Lexer::tokenize, the   *)
(* recursive-descent Parser (parseTerm / parseFactor / parsePrimary over   *)
(* the cursor idx), the Expression tree with interpret(), and the read     *)
(* loop of main().  Characters are one-character strings, a line is a      *)
(* sequence of characters, indices i and idx are 0-based as in the source. *)
(***************************************************************************)
EXTENDS Integers, Sequences, FiniteSets, TLC

(* ------------------------------ bounds --------------------------------- *)
\* longest line of the exhaustive family (every string over Alphabet)
MaxLen == 3
\* largest literal used in the structured expression families
MaxLit == 3
\* most operands in an operator chain
MaxChain == 4
\* the round trip of literals is tried for every n up to here, besides the
\* values around INT_MAX
MaxRoundTrip == 120
\* longest run of blanks inserted into a line
MaxWs == 2
\* most pairs of parentheses put around a line
MaxWrap == 2

(* ------------------------- program constants --------------------------- *)
\* largest value of int (std::stoi converts to int)
INT_MAX == 2147483647
INT_MIN == -INT_MAX - 1

(* ------------------------------ characters ----------------------------- *)
Digits == {"0", "1", "2", "3", "4", "5", "6", "7", "8", "9"}
\* the characters isspace accepts (the vertical tab has no TLA+ escape)
Whitespace == {" ", "\t", "\n", "\r", "\f"}
Symbols == {"+", "-", "*", "/", "(", ")"}

\* isspace recognising the blank only
isspace_BlankOnly(ch) == ch = " "

\* isspace(ch) of <cctype>
isspace(ch) == ch \in Whitespace
\* isdigit(ch) of <cctype>
isdigit(ch) == ch \in Digits

DigitVal(ch) ==
  CASE ch = "0" -> 0 [] ch = "1" -> 1 [] ch = "2" -> 2 [] ch = "3" -> 3
    [] ch = "4" -> 4 [] ch = "5" -> 5 [] ch = "6" -> 6 [] ch = "7" -> 7
    [] ch = "8" -> 8 [] ch = "9" -> 9

DigitChar(d) ==
  CASE d = 0 -> "0" [] d = 1 -> "1" [] d = 2 -> "2" [] d = 3 -> "3"
    [] d = 4 -> "4" [] d = 5 -> "5" [] d = 6 -> "6" [] d = 7 -> "7"
    [] d = 8 -> "8" [] d = 9 -> "9"

(* ------------------------------- tokens -------------------------------- *)
TokenType == {"INTEGER", "PLUSOPERATOR", "MINUSOPERATOR", "STAROPERATOR",
              "SLASHOPERATOR", "LPARENTHESIS", "RPARENTHESIS"}

Token(type, value) == [type |-> type, value |-> value]

\* the switch of Lexer::tokenize: the token type of a symbol character
SymbolType(ch) ==
  CASE ch = "+" -> "PLUSOPERATOR"
    [] ch = "-" -> "MINUSOPERATOR"
    [] ch = "*" -> "STAROPERATOR"
    [] ch = "/" -> "SLASHOPERATOR"
    [] ch = "(" -> "LPARENTHESIS"
    [] ch = ")" -> "RPARENTHESIS"

(* --------------------------- expression trees -------------------------- *)
NoTree == [node |-> "None"]
LiteralExpression(value) == [node |-> "Literal", value |-> value]
PlusBinaryOp(left, right) == [node |-> "Plus", left |-> left, right |-> right]
MinusBinaryOp(left, right) == [node |-> "Minus", left |-> left, right |-> right]
StarBinaryOp(left, right) == [node |-> "Star", left |-> left, right |-> right]
DivBinaryOp(left, right) == [node |-> "Div", left |-> left, right |-> right]

(* ------------------------- native int arithmetic ------------------------ *)
\* results of interpret(): an int, the thrown "Division by zero", or an
\* operation whose mathematical result leaves the range of int
Value(v) == [kind |-> "value", val |-> v]
DivisionByZero == [kind |-> "DivisionByZero", val |-> 0]
Overflow == [kind |-> "Overflow", val |-> 0]

AddFits(a, b) == IF b >= 0 THEN a <= INT_MAX - b ELSE a >= INT_MIN - b
SubFits(a, b) == IF b >= 0 THEN a >= INT_MIN + b ELSE a <= INT_MAX + b
MulFits(a, b) ==
  \/ a = 0 \/ b = 0
  \/ a > 0 /\ b > 0 /\ a <= INT_MAX \div b
  \/ a > 0 /\ b < 0 /\ b >= (INT_MIN + a - 1) \div a
  \/ a < 0 /\ b > 0 /\ a >= (INT_MIN + b - 1) \div b
  \/ a < 0 /\ b < 0 /\ a # INT_MIN /\ b # INT_MIN /\ (-a) <= INT_MAX \div (-b)

\* a division that rounds toward minus infinity
IntDiv_Floor(a, b) == a \div b

\* operator / of int: the quotient with the fractional part discarded
\* (b # 0 and not INT_MIN / -1)
IntDiv(a, b) ==
  LET ua == IF a < 0 THEN -a ELSE a
      ub == IF b < 0 THEN -b ELSE b
  IN  IF b = INT_MIN THEN (IF a = INT_MIN THEN 1 ELSE 0)
      ELSE IF a = INT_MIN
        THEN LET q == (INT_MAX \div ub) + (IF (INT_MAX % ub) = ub - 1 THEN 1 ELSE 0)
             IN  IF b > 0 THEN -q ELSE q
      ELSE IF (a < 0) = (b < 0) THEN ua \div ub ELSE -(ua \div ub)

(* ------------------------------ evaluator ------------------------------ *)
\* interpret with a multiplication that yields 0 for a zero left operand
\* without evaluating the right one
RECURSIVE interpret_LazyStar(_)
interpret_LazyStar(e) ==
  IF e.node = "Literal" THEN Value(e.value)
  ELSE IF e.node = "Div" THEN
    LET denominator == interpret_LazyStar(e.right)
    IN  IF denominator.kind # "value" THEN denominator
        ELSE IF denominator.val = 0 THEN DivisionByZero
        ELSE LET l == interpret_LazyStar(e.left)
             IN  IF l.kind # "value" THEN l
                 ELSE IF l.val = INT_MIN /\ denominator.val = -1 THEN Overflow
                 ELSE Value(IntDiv(l.val, denominator.val))
  ELSE IF e.node = "Star" /\ interpret_LazyStar(e.left) = Value(0) THEN Value(0)
  ELSE
    LET l == interpret_LazyStar(e.left)
        r == interpret_LazyStar(e.right)
    IN  IF l.kind = "Overflow" \/ r.kind = "Overflow" THEN Overflow
        ELSE IF l.kind # "value" THEN l
        ELSE IF r.kind # "value" THEN r
        ELSE IF e.node = "Plus"
          THEN IF AddFits(l.val, r.val) THEN Value(l.val + r.val) ELSE Overflow
        ELSE IF e.node = "Minus"
          THEN IF SubFits(l.val, r.val) THEN Value(l.val - r.val) ELSE Overflow
        ELSE IF MulFits(l.val, r.val) THEN Value(l.val * r.val) ELSE Overflow

\* Expression::interpret of the four BinaryOp subclasses and of
\* LiteralExpression
RECURSIVE interpret(_)
interpret(e) ==
  IF e.node = "Literal" THEN Value(e.value)
  ELSE IF e.node = "Div" THEN
    LET denominator == interpret(e.right)
    IN  IF denominator.kind # "value" THEN denominator
        ELSE IF denominator.val = 0 THEN DivisionByZero
        ELSE LET l == interpret(e.left)
             IN  IF l.kind # "value" THEN l
                 ELSE IF l.val = INT_MIN /\ denominator.val = -1 THEN Overflow
                 ELSE Value(IntDiv(l.val, denominator.val))
  ELSE
    LET l == interpret(e.left)
        r == interpret(e.right)
    IN  IF l.kind = "Overflow" \/ r.kind = "Overflow" THEN Overflow
        ELSE IF l.kind # "value" THEN l
        ELSE IF r.kind # "value" THEN r
        ELSE IF e.node = "Plus"
          THEN IF AddFits(l.val, r.val) THEN Value(l.val + r.val) ELSE Overflow
        ELSE IF e.node = "Minus"
          THEN IF SubFits(l.val, r.val) THEN Value(l.val - r.val) ELSE Overflow
        ELSE IF MulFits(l.val, r.val) THEN Value(l.val * r.val) ELSE Overflow

(* ------------------------------ std::stoi ------------------------------ *)
\* std::stoi on a non-empty digit string: the value, or std::out_of_range
\* when it exceeds INT_MAX.  acc is the value of the first k digits.
RECURSIVE StoiFrom(_, _, _)
StoiFrom(str, k, acc) ==
  IF k = Len(str) THEN [ok |-> TRUE, val |-> acc]
  ELSE LET d == DigitVal(str[k + 1])
       IN  IF acc > INT_MAX \div 10 \/ (acc = INT_MAX \div 10 /\ d > INT_MAX % 10)
             THEN [ok |-> FALSE, val |-> 0]
             ELSE StoiFrom(str, k + 1, acc * 10 + d)

\* a conversion through a 16-bit integer
stoi_Short(str) ==
  IF StoiFrom(str, 0, 0).val > 32767 THEN [ok |-> FALSE, val |-> 0]
  ELSE StoiFrom(str, 0, 0)

stoi(str) == StoiFrom(str, 0, 0)

(* ------------------------------- outcomes ------------------------------ *)
\* what main() prints for a line: "Result: <int>" or "Error: <e.what()>"
Result(v) == [kind |-> "Result", what |-> "", val |-> v, ch |-> ""]
Error(what, ch) == [kind |-> "Error", what |-> what, val |-> 0, ch |-> ch]
\* the process is killed (outside the C++ abstract machine)
Crash == [kind |-> "Crash", what |-> "", val |-> 0, ch |-> ""]

\* LexError{unexpectedChar}
UnknownCharacter(ch) == Error("Unknown character in expression: ", ch)
\* ParseError{UnexpectedEnd}
UnexpectedEnd == Error("Unexpected end of expression", "")
\* ParseError{ExpectedCloseParen}
ExpectedCloseParen == Error("Expected closing parenthesis", "")
\* ParseError{InvalidPrimary}
InvalidPrimary == Error("Invalid expression", "")
\* ArithmeticError{DivisionByZero}
DivisionByZeroError == Error("Division by zero", "")
\* std::out_of_range thrown by std::stoi, what() = "stoi"
StoiOutOfRange == Error("stoi", "")

\* what signed overflow (undefined behaviour) can come to: some int, or a trap
UndefinedOutcomes == {Crash} \cup {Result(v) : v \in {INT_MIN, -1, 0, 1, INT_MAX}}

\* the outcomes of printing expression->interpret() in main
InterpretOutcomes(r) ==
  IF r.kind = "value" THEN {Result(r.val)}
  ELSE IF r.kind = "DivisionByZero" THEN {DivisionByZeroError}
  ELSE UndefinedOutcomes

(* ------------------------------ input lines ---------------------------- *)
Alphabet == {"0", "1", "2", "+", "-", "*", "/", "(", ")", " ", "@", "a"}
AddOps == {"+", "-"}
MulOps == {"*", "/"}
Ops == AddOps \cup MulOps
Lits == 0..MaxLit

exit == <<"e", "x", "i", "t">>

\* every string over Alphabet of length at most n
Strings(n) == UNION {[1..k -> Alphabet] : k \in 0..n}

\* std::to_string of a non-negative int: its decimal digits, no leading zero
RECURSIVE Str(_)
Str(n) == IF n < 10 THEN <<DigitChar(n)>>
          ELSE Append(Str(n \div 10), DigitChar(n % 10))

\* a op1 b op2 c, (a op1 b) op2 c, a op1 (b op2 c)
Flat(a, o1, b, o2, c) == Str(a) \o <<o1>> \o Str(b) \o <<o2>> \o Str(c)
GroupLeft(a, o1, b, o2, c) ==
  <<"(">> \o Str(a) \o <<o1>> \o Str(b) \o <<")", o2>> \o Str(c)
GroupRight(a, o1, b, o2, c) ==
  Str(a) \o <<o1, "(">> \o Str(b) \o <<o2>> \o Str(c) \o <<")">>

TripleLines ==
  UNION {{Flat(a, o1, b, o2, c), GroupLeft(a, o1, b, o2, c),
          GroupRight(a, o1, b, o2, c)} :
         <<a, o1, b, o2, c>> \in Lits \X Ops \X Lits \X Ops \X Lits}

\* operands xs joined by the operators os (Len(os) = Len(xs) - 1)
RECURSIVE Chain(_, _)
Chain(xs, os) ==
  IF Len(xs) = 1 THEN Str(xs[1])
  ELSE Chain(SubSeq(xs, 1, Len(xs) - 1), SubSeq(os, 1, Len(os) - 1))
         \o <<os[Len(os)]>> \o Str(xs[Len(xs)])

\* the operands of the chains (non-zero, so that no chain divides by zero)
ChainLits == {1, 2, 3}

Chains(tier) ==
  UNION {{Chain(xs, os) : <<xs, os>> \in [1..k -> ChainLits] \X [1..(k - 1) -> tier]} :
         k \in 2..MaxChain}

ChainLines == Chains(AddOps) \cup Chains(MulOps)

\* an opened group that is never closed: (a op b
OpenLines ==
  {<<"(">> \o Str(a) \o <<o>> \o Str(b) : <<a, o, b>> \in Lits \X Ops \X Lits}

\* integers whose decimal string is given as a line: small ones and the
\* largest values of int
RoundTripNums ==
  (0..MaxRoundTrip) \cup {999999999, 1000000000, INT_MAX - 1, INT_MAX}

\* integers above INT_MAX, each written <<hi, lo>> for 10 * hi + lo
BeyondNums ==
  {<<INT_MAX \div 10, (INT_MAX % 10) + 1>>, <<INT_MAX \div 10, 9>>,
   <<(INT_MAX \div 10) + 1, 0>>, <<999999999, 9>>, <<INT_MAX, 0>>}

\* the decimal digits of 10 * hi + lo (hi > 0)
StrBig(hi, lo) == Append(Str(hi), DigitChar(lo))

NumLines ==
  {Str(n) : n \in RoundTripNums} \cup {StrBig(b[1], b[2]) : b \in BeyondNums}

\* lines with a negative dividend or divisor, nested groups, and failures
\* of two stages in one line
ExampleLines ==
  {<<"(", "1", "-", "8", ")", "/", "2">>,
   <<"7", "/", "(", "1", "-", "3", ")">>,
   <<"(", "1", "-", "8", ")", "/", "(", "1", "-", "3", ")">>,
   <<"(", "(", "2", "+", "3", ")", "*", "(", "4", "-", "1", ")", ")">>,
   <<"-", "5", "@">>,
   <<"5", "/", "0", "@">>,
   <<"(", "5", "/", "0">>,
   <<"5", "/", "0", "+">>,
   <<"5", "/", "0", "*", "-", "1">>,
   <<"0", "1", " ", "2">>,
   <<"0", "0", "7", "+", "\t", "0", "8", " ", "*", "(", "1", "0", ")">>}

Lines ==
  Strings(MaxLen) \cup TripleLines \cup ChainLines \cup OpenLines \cup NumLines
    \cup ExampleLines

\* a op b
BinLines == {Str(a) \o <<o>> \o Str(b) : <<a, o, b>> \in Lits \X Ops \X Lits}

\* the whitespace inserted: runs of blanks, and a tab
WsRuns == {[j \in 1..n |-> " "] : n \in 1..MaxWs} \cup {<<"\t">>}

\* position p of l (0 before the first character, Len(l) after the last) is
\* not inside a run of digits
Boundary(l, p) ==
  p = 0 \/ p = Len(l) \/ ~(l[p] \in Digits /\ l[p + 1] \in Digits)

InsertAt(l, p, w) == SubSeq(l, 1, p) \o w \o SubSeq(l, p + 1, Len(l))

\* l with one run of whitespace inserted at a boundary
Variants(l) ==
  {InsertAt(l, p, w) : <<p, w>> \in {q \in (0..Len(l)) \X WsRuns : Boundary(l, q[1])}}

\* the lines given together with their variants
WsBase == Strings(MaxLen - 1) \cup BinLines \cup OpenLines

\* l inside n pairs of parentheses
RECURSIVE Wrapped(_, _)
Wrapped(l, n) == IF n = 0 THEN l ELSE <<"(">> \o Wrapped(l, n - 1) \o <<")">>

\* valid expressions, given together with their parenthesized forms
WrapBase ==
  {Str(n) : n \in Lits} \cup BinLines
    \cup {<<"2", "+", "3", "*", "4">>,
          <<"8", "/", "(", "2", "-", "2", ")">>,
          <<"(", "2", "+", "3", ")", "*", "(", "4", "-", "1", ")">>,
          <<" ", "7", " ", "-", " ", "1", "0", " ">>}

\* lines of every outcome, given in every order one after another
Pool ==
  {<<"1", "+", "2">>, <<"2", "*", "3">>, <<"1", "/", "0">>, <<"@">>, <<>>,
   <<"(", "1">>, <<"-", "1">>, <<"1", " ", "2">>, <<"1", "+">>,
   StrBig(INT_MAX \div 10, (INT_MAX % 10) + 1)}

\* what the user types: one line, or a line and then a variant of it, or a
\* line, another one and the first again, and then exit
Inputs ==
  {<<l, exit>> : l \in Lines}
    \cup UNION {{<<l, m, exit>> : m \in Variants(l)} : l \in WsBase}
    \cup {<<l, m, l, exit>> : <<l, m>> \in Pool \X Pool}
    \cup {<<l, Wrapped(l, n), exit>> : <<l, n>> \in WrapBase \X (1..MaxWrap)}

(* -------------------------------- state -------------------------------- *)
VARIABLES
  stdin,       \* the lines std::getline will still return
  expr,        \* main: std::string expr
  pc,          \* main: "getline", "tokenize", "parse", "interpret", "exited"
  i,           \* Lexer::tokenize: size_t i
  tokens,      \* Lexer::tokenize / main: the token vector
  num,         \* Lexer::tokenize: std::string num of the digit loop
  inNum,       \* Lexer::tokenize: control is inside the digit loop
  idx,         \* Parser::idx
  stack,       \* the parser's call stack, innermost frame last
  expression,  \* main: the tree returned by parser.parse()
  log,         \* what main printed, one entry per line processed
  trees,       \* for each entry of log, the tree parser.parse() had returned
               \* for that line (none when the line failed before that)
  trace        \* the calls of Parser::next and Parser::rewind made by the
               \* parser of the current line, in order

vars == <<stdin, expr, pc, i, tokens, num, inNum, idx, stack, expression, log,
          trees, trace>>

lexer == <<i, tokens, num, inNum>>
parser == <<idx, stack, expression, trace>>

\* a frame of parseTerm / parseFactor / parsePrimary: where it stands and
\* its local tree (left; expr in parsePrimary)
Frame(fn, at, left) == [fn |-> fn, at |-> at, left |-> left]

Init ==
  /\ stdin \in Inputs
  /\ expr = <<>>
  /\ pc = "getline"
  /\ i = 0 /\ tokens = <<>> /\ num = <<>> /\ inNum = FALSE
  /\ idx = 0 /\ stack = <<>> /\ expression = NoTree
  /\ log = <<>>
  /\ trees = <<>>
  /\ trace = <<>>

\* the token vector kept from one line to the next
Cleanup_KeepTokens ==
  /\ i' = 0 /\ tokens' = tokens /\ num' = <<>> /\ inNum' = FALSE
  /\ idx' = 0 /\ stack' = <<>> /\ expression' = NoTree

\* leaving the try block of main: tokens, parser and expression are destroyed
Cleanup ==
  /\ i' = 0 /\ tokens' = <<>> /\ num' = <<>> /\ inNum' = FALSE
  /\ idx' = 0 /\ stack' = <<>> /\ expression' = NoTree

\* an exception propagates to the catch of main, which prints e.what()
Throw(e) ==
  /\ log' = Append(log, [line |-> expr, out |-> e])
  /\ trees' = Append(trees, NoTree)
  /\ pc' = "getline"
  /\ Cleanup
  /\ UNCHANGED <<stdin, expr>>

(* ------------------------------ main loop ------------------------------ *)
\* std::getline(std::cin, expr) and the test against "exit"
GetLine ==
  /\ pc = "getline"
  /\ stdin # <<>>
  /\ expr' = Head(stdin)
  /\ stdin' = Tail(stdin)
  /\ pc' = IF Head(stdin) = exit THEN "exited" ELSE "tokenize"
  /\ UNCHANGED <<lexer, parser, log, trees>>

(* -------------------------------- lexer -------------------------------- *)
\* the character examined by the current iteration
ch == expr[i + 1]

LexSpace ==
  /\ pc = "tokenize" /\ ~inNum /\ i < Len(expr)
  /\ isspace(ch)
  /\ i' = i + 1
  /\ UNCHANGED <<stdin, expr, pc, tokens, num, inNum, parser, log, trees>>

LexDigitBegin ==
  /\ pc = "tokenize" /\ ~inNum /\ i < Len(expr)
  /\ ~isspace(ch) /\ isdigit(ch)
  /\ num' = <<>>
  /\ inNum' = TRUE
  /\ UNCHANGED <<stdin, expr, pc, i, tokens, parser, log, trees>>

LexDigit ==
  /\ pc = "tokenize" /\ inNum
  /\ i < Len(expr) /\ isdigit(ch)
  /\ num' = Append(num, ch)
  /\ i' = i + 1
  /\ UNCHANGED <<stdin, expr, pc, tokens, inNum, parser, log, trees>>

\* the digit loop left after any digit, also when a digit follows
LexDigitEnd_AnyDigit ==
  /\ pc = "tokenize" /\ inNum
  /\ num # <<>>
  /\ tokens' = Append(tokens, Token("INTEGER", num))
  /\ inNum' = FALSE
  /\ UNCHANGED <<stdin, expr, pc, i, num, parser, log, trees>>

\* the digit loop ends: tokens.emplace_back(INTEGER, num); continue
LexDigitEnd ==
  /\ pc = "tokenize" /\ inNum
  /\ ~(i < Len(expr) /\ isdigit(ch))
  /\ tokens' = Append(tokens, Token("INTEGER", num))
  /\ inNum' = FALSE
  /\ UNCHANGED <<stdin, expr, pc, i, num, parser, log, trees>>

LexSymbol ==
  /\ pc = "tokenize" /\ ~inNum /\ i < Len(expr)
  /\ ~isspace(ch) /\ ~isdigit(ch) /\ ch \in Symbols
  /\ tokens' = Append(tokens, Token(SymbolType(ch), <<ch>>))
  /\ i' = i + 1
  /\ UNCHANGED <<stdin, expr, pc, num, inNum, parser, log, trees>>

\* an unknown character skipped instead of rejected
LexUnknown_Skip ==
  /\ pc = "tokenize" /\ ~inNum /\ i < Len(expr)
  /\ ~isspace(ch) /\ ~isdigit(ch) /\ ch \notin Symbols
  /\ i' = i + 1
  /\ UNCHANGED <<stdin, expr, pc, tokens, num, inNum, parser, log, trees>>

\* the lexer handing the tokens read so far to the parser at an unknown
\* character
LexUnknown_Stop ==
  /\ pc = "tokenize" /\ ~inNum /\ i < Len(expr)
  /\ ~isspace(ch) /\ ~isdigit(ch) /\ ch \notin Symbols
  /\ pc' = "parse"
  /\ idx' = 0
  /\ stack' = <<Frame("parseTerm", "entry", NoTree)>>
  /\ trace' = <<>>
  /\ UNCHANGED <<stdin, expr, lexer, expression, log, trees>>

LexUnknown ==
  /\ pc = "tokenize" /\ ~inNum /\ i < Len(expr)
  /\ ~isspace(ch) /\ ~isdigit(ch) /\ ch \notin Symbols
  /\ Throw(UnknownCharacter(ch))
  /\ UNCHANGED trace

\* return tokens; Parser parser(tokens); parser.parse() enters parseTerm
\* through parseExpression
LexReturn ==
  /\ pc = "tokenize" /\ ~inNum /\ ~(i < Len(expr))
  /\ pc' = "parse"
  /\ idx' = 0
  /\ stack' = <<Frame("parseTerm", "entry", NoTree)>>
  /\ trace' = <<>>
  /\ UNCHANGED <<stdin, expr, lexer, expression, log, trees>>

(* -------------------------------- parser ------------------------------- *)
top == stack[Len(stack)]

\* Parser::next: nullptr at the end, else tokens[idx++]
atEnd == idx >= Len(tokens)
token == tokens[idx + 1]

\* Parser::rewind stepping back over two tokens
rewind_Two(n) == IF n > 1 THEN n - 2 ELSE 0

\* Parser::rewind applied to cursor n
rewind(n) == IF n > 0 THEN n - 1 ELSE n

\* what a call of Parser::next does to the cursor: it stays at the end of the
\* tokens (nullptr), else it moves over the token it returns
NextEvent == [op |-> "next", from |-> idx, to |-> IF atEnd THEN idx ELSE idx + 1]

\* what the call of Parser::rewind after that call of next does to the cursor
RewindEvent == [op |-> "rewind", from |-> idx + 1, to |-> rewind(idx + 1)]

\* Resume with the operands of the subtraction fold exchanged
Resume_SwapMinus(f, v) ==
  CASE f.at = "first" -> Frame(f.fn, "loop", v)
    [] f.at = "plus"  -> Frame(f.fn, "loop", PlusBinaryOp(f.left, v))
    [] f.at = "minus" -> Frame(f.fn, "loop", MinusBinaryOp(v, f.left))
    [] f.at = "star"  -> Frame(f.fn, "loop", StarBinaryOp(f.left, v))
    [] f.at = "slash" -> Frame(f.fn, "loop", DivBinaryOp(f.left, v))
    [] f.at = "paren" -> Frame(f.fn, "close", v)

\* the caller's frame once the call it waits for has returned tree v
Resume(f, v) ==
  CASE f.at = "first" -> Frame(f.fn, "loop", v)
    [] f.at = "plus"  -> Frame(f.fn, "loop", PlusBinaryOp(f.left, v))
    [] f.at = "minus" -> Frame(f.fn, "loop", MinusBinaryOp(f.left, v))
    [] f.at = "star"  -> Frame(f.fn, "loop", StarBinaryOp(f.left, v))
    [] f.at = "slash" -> Frame(f.fn, "loop", DivBinaryOp(f.left, v))
    [] f.at = "paren" -> Frame(f.fn, "close", v)

\* the innermost frame moves to label at and calls fn
Call(at, fn) ==
  stack' = [stack EXCEPT ![Len(stack)].at = at] \o <<Frame(fn, "entry", NoTree)>>

\* the innermost frame returns tree v: to its caller, or from parse() to main
Return(v) ==
  IF Len(stack) = 1
    THEN /\ stack' = <<>>
         /\ expression' = v
         /\ pc' = "interpret"
    ELSE /\ stack' = [SubSeq(stack, 1, Len(stack) - 1)
                        EXCEPT ![Len(stack) - 1] = Resume(stack[Len(stack) - 1], v)]
         /\ UNCHANGED <<expression, pc>>

InFrame(fn, at) == pc = "parse" /\ stack # <<>> /\ top.fn = fn /\ top.at = at

\* parseTerm taking its first operand from parsePrimary: no precedence tier
TermEntry_NoFactor ==
  /\ InFrame("parseTerm", "entry")
  /\ Call("first", "parsePrimary")
  /\ UNCHANGED <<stdin, expr, pc, lexer, idx, expression, log, trees, trace>>

\* auto left = parseFactor();
TermEntry ==
  /\ InFrame("parseTerm", "entry")
  /\ Call("first", "parseFactor")
  /\ UNCHANGED <<stdin, expr, pc, lexer, idx, expression, log, trees, trace>>

\* one iteration of the loop of parseTerm
TermLoop ==
  /\ InFrame("parseTerm", "loop")
  /\ IF atEnd
       THEN /\ Return(top.left)
            /\ trace' = Append(trace, NextEvent)
            /\ UNCHANGED idx
     ELSE IF token.type = "PLUSOPERATOR"
       THEN /\ idx' = idx + 1
            /\ Call("plus", "parseFactor")
            /\ trace' = Append(trace, NextEvent)
            /\ UNCHANGED <<expression, pc>>
     ELSE IF token.type = "MINUSOPERATOR"
       THEN /\ idx' = idx + 1
            /\ Call("minus", "parseFactor")
            /\ trace' = Append(trace, NextEvent)
            /\ UNCHANGED <<expression, pc>>
     ELSE /\ idx' = rewind(idx + 1)
          /\ Return(top.left)
          /\ trace' = trace \o <<NextEvent, RewindEvent>>
  /\ UNCHANGED <<stdin, expr, lexer, log, trees>>

\* auto left = parsePrimary();
FactorEntry ==
  /\ InFrame("parseFactor", "entry")
  /\ Call("first", "parsePrimary")
  /\ UNCHANGED <<stdin, expr, pc, lexer, idx, expression, log, trees, trace>>

\* one iteration of the loop of parseFactor
FactorLoop ==
  /\ InFrame("parseFactor", "loop")
  /\ IF atEnd
       THEN /\ Return(top.left)
            /\ trace' = Append(trace, NextEvent)
            /\ UNCHANGED idx
     ELSE IF token.type = "STAROPERATOR"
       THEN /\ idx' = idx + 1
            /\ Call("star", "parsePrimary")
            /\ trace' = Append(trace, NextEvent)
            /\ UNCHANGED <<expression, pc>>
     ELSE IF token.type = "SLASHOPERATOR"
       THEN /\ idx' = idx + 1
            /\ Call("slash", "parsePrimary")
            /\ trace' = Append(trace, NextEvent)
            /\ UNCHANGED <<expression, pc>>
     ELSE /\ idx' = rewind(idx + 1)
          /\ Return(top.left)
          /\ trace' = trace \o <<NextEvent, RewindEvent>>
  /\ UNCHANGED <<stdin, expr, lexer, log, trees>>

\* parsePrimary reporting every token that starts no primary as the end of
\* the expression
PrimaryEntry_EndForInvalid ==
  /\ InFrame("parsePrimary", "entry")
  /\ trace' = Append(trace, NextEvent)
  /\ IF atEnd THEN Throw(UnexpectedEnd)
     ELSE IF token.type = "INTEGER"
       THEN IF stoi(token.value).ok
              THEN /\ idx' = idx + 1
                   /\ Return(LiteralExpression(stoi(token.value).val))
                   /\ UNCHANGED <<stdin, expr, lexer, log, trees>>
              ELSE Throw(StoiOutOfRange)
     ELSE IF token.type = "LPARENTHESIS"
       THEN /\ idx' = idx + 1
            /\ Call("paren", "parseTerm")
            /\ UNCHANGED <<stdin, expr, pc, lexer, expression, log, trees>>
     ELSE Throw(UnexpectedEnd)

\* parsePrimary reporting the end of the tokens as an invalid expression
PrimaryEntry_InvalidForEnd ==
  /\ InFrame("parsePrimary", "entry")
  /\ trace' = Append(trace, NextEvent)
  /\ IF atEnd THEN Throw(InvalidPrimary)
     ELSE IF token.type = "INTEGER"
       THEN IF stoi(token.value).ok
              THEN /\ idx' = idx + 1
                   /\ Return(LiteralExpression(stoi(token.value).val))
                   /\ UNCHANGED <<stdin, expr, lexer, log, trees>>
              ELSE Throw(StoiOutOfRange)
     ELSE IF token.type = "LPARENTHESIS"
       THEN /\ idx' = idx + 1
            /\ Call("paren", "parseTerm")
            /\ UNCHANGED <<stdin, expr, pc, lexer, expression, log, trees>>
     ELSE Throw(InvalidPrimary)

\* parsePrimary up to the recursive call: an integer literal, or "("
PrimaryEntry ==
  /\ InFrame("parsePrimary", "entry")
  /\ trace' = Append(trace, NextEvent)
  /\ IF atEnd THEN Throw(UnexpectedEnd)
     ELSE IF token.type = "INTEGER"
       THEN IF stoi(token.value).ok
              THEN /\ idx' = idx + 1
                   /\ Return(LiteralExpression(stoi(token.value).val))
                   /\ UNCHANGED <<stdin, expr, lexer, log, trees>>
              ELSE Throw(StoiOutOfRange)
     ELSE IF token.type = "LPARENTHESIS"
       THEN /\ idx' = idx + 1
            /\ Call("paren", "parseTerm")
            /\ UNCHANGED <<stdin, expr, pc, lexer, expression, log, trees>>
     ELSE Throw(InvalidPrimary)

\* parsePrimary accepting the end of the tokens in place of ")"
PrimaryClose_EndCloses ==
  /\ InFrame("parsePrimary", "close")
  /\ trace' = Append(trace, NextEvent)
  /\ IF ~atEnd /\ token.type # "RPARENTHESIS"
       THEN Throw(ExpectedCloseParen)
       ELSE /\ idx' = IF atEnd THEN idx ELSE idx + 1
            /\ Return(top.left)
            /\ UNCHANGED <<stdin, expr, lexer, log, trees>>

\* parsePrimary accepting ")" without moving the cursor over it
PrimaryClose_NoConsume ==
  /\ InFrame("parsePrimary", "close")
  /\ trace' = Append(trace, NextEvent)
  /\ IF atEnd \/ token.type # "RPARENTHESIS"
       THEN Throw(ExpectedCloseParen)
       ELSE /\ idx' = idx
            /\ Return(top.left)
            /\ UNCHANGED <<stdin, expr, lexer, log, trees>>

\* parsePrimary returning the sub-expression inside a node of its own
PrimaryClose_ExtraNode ==
  /\ InFrame("parsePrimary", "close")
  /\ trace' = Append(trace, NextEvent)
  /\ IF atEnd \/ token.type # "RPARENTHESIS"
       THEN Throw(ExpectedCloseParen)
       ELSE /\ idx' = idx + 1
            /\ Return(PlusBinaryOp(top.left, LiteralExpression(0)))
            /\ UNCHANGED <<stdin, expr, lexer, log, trees>>

\* parsePrimary after the sub-expression: the closing parenthesis
PrimaryClose ==
  /\ InFrame("parsePrimary", "close")
  /\ trace' = Append(trace, NextEvent)
  /\ IF atEnd \/ token.type # "RPARENTHESIS"
       THEN Throw(ExpectedCloseParen)
       ELSE /\ idx' = idx + 1
            /\ Return(top.left)
            /\ UNCHANGED <<stdin, expr, lexer, log, trees>>

(* ------------------------- evaluation and output ------------------------ *)
\* std::cout << "Result: " << expression->interpret(), or the catch
Interpret ==
  /\ pc = "interpret"
  /\ \E o \in InterpretOutcomes(interpret(expression)) :
       /\ log' = Append(log, [line |-> expr, out |-> o])
       /\ trees' = Append(trees, expression)
       /\ pc' = IF o.kind = "Crash" THEN "exited" ELSE "getline"
  /\ Cleanup
  /\ UNCHANGED <<stdin, expr, trace>>

Next ==
  \/ GetLine
  \/ LexSpace \/ LexDigitBegin \/ LexDigit \/ LexDigitEnd \/ LexSymbol
  \/ LexUnknown \/ LexReturn
  \/ TermEntry \/ TermLoop \/ FactorEntry \/ FactorLoop
  \/ PrimaryEntry \/ PrimaryClose
  \/ Interpret

Spec == Init /\ [][Next]_vars

\* main runs without suspension: a step that can be taken is taken. The lines
\* are those of Init without the whitespace variants, and with two long
\* chains in place of the families of triples and chains
FairInputs ==
  {<<l, exit>> :
     l \in Strings(MaxLen) \cup OpenLines \cup NumLines \cup ExampleLines
             \cup {<<"1", "+", "2", "-", "3", "+", "1", "-", "2">>,
                   <<"3", "*", "2", "/", "1", "*", "2", "/", "3">>}}
    \cup {<<l, m, l, exit>> : <<l, m>> \in Pool \X Pool}
    \cup {<<l, Wrapped(l, n), exit>> : <<l, n>> \in WrapBase \X (1..MaxWrap)}

FairInit ==
  /\ stdin \in FairInputs
  /\ expr = <<>>
  /\ pc = "getline"
  /\ i = 0 /\ tokens = <<>> /\ num = <<>> /\ inNum = FALSE
  /\ idx = 0 /\ stack = <<>> /\ expression = NoTree
  /\ log = <<>>
  /\ trees = <<>>
  /\ trace = <<>>

FairSpec == FairInit /\ [][Next]_vars /\ WF_vars(Next)

(* ======================== properties of the program ==================== *)
\* line l was processed and main printed outcome o for it
Logged(l, o) == \E k \in DOMAIN log : log[k].line = l /\ log[k].out = o

Abs(x) == IF x < 0 THEN -x ELSE x

\* the quotient of x by y # 0 rounded toward zero: the q whose remainder
\* x - q*y is smaller than y in magnitude and is zero or has the sign of x
TruncQuot(x, y) ==
  CHOOSE q \in (-Abs(x))..Abs(x) :
    LET r == x - q * y
    IN  Abs(r) < Abs(y) /\ (r = 0 \/ (r > 0) = (x > 0))

\* the value of x op y
Bin(op, x, y) ==
  CASE op = "+" -> x + y
    [] op = "-" -> x - y
    [] op = "*" -> x * y
    [] op = "/" -> TruncQuot(x, y)

\* C1: whenever Parser::parse returns a tree, every token has been consumed
\* (idx equals the number of tokens); a complete expression followed by
\* further tokens never reaches evaluation.
C1_AllTokensConsumed == pc = "interpret" => idx = Len(tokens)

\* C2: * and / bind tighter than + and -: "a ADD b MUL c" evaluates to
\* a ADD (b MUL c), "a MUL b ADD c" to (a MUL b) ADD c, and parentheses
\* regroup: "(a ADD b) MUL c" evaluates to (a ADD b) MUL c (divisors non-zero).
C2_Precedence ==
  \A k \in DOMAIN log :
    log[k].line \in TripleLines =>
      \A a \in Lits, b \in Lits, c \in Lits, add \in AddOps, mul \in MulOps :
        /\ (log[k].line = Flat(a, add, b, mul, c) /\ (mul = "/" => c # 0))
             => log[k].out = Result(Bin(add, a, Bin(mul, b, c)))
        /\ (log[k].line = Flat(a, mul, b, add, c) /\ (mul = "/" => b # 0))
             => log[k].out = Result(Bin(add, Bin(mul, a, b), c))
        /\ (log[k].line = GroupLeft(a, add, b, mul, c) /\ (mul = "/" => c # 0))
             => log[k].out = Result(Bin(mul, Bin(add, a, b), c))

\* "1+2*3" has been evaluated and 7 printed
C2_Witness == Logged(<<"1", "+", "2", "*", "3">>, Result(7))

\* the value of a digit string
RECURSIVE Num(_)
Num(ds) == IF Len(ds) = 0 THEN 0
           ELSE 10 * Num(SubSeq(ds, 1, Len(ds) - 1)) + DigitVal(ds[Len(ds)])

HasOp(l) == \E j \in DOMAIN l : l[j] \in Ops
LastOp(l) == CHOOSE j \in DOMAIN l : l[j] \in Ops /\ \A m \in DOMAIN l : m > j => l[m] \notin Ops

\* a chain combined strictly left to right: everything before the last
\* operator, combined, then that operator applied to the last operand
RECURSIVE LeftToRight(_)
LeftToRight(l) ==
  IF ~HasOp(l) THEN Num(l)
  ELSE Bin(l[LastOp(l)], LeftToRight(SubSeq(l, 1, LastOp(l) - 1)),
           Num(SubSeq(l, LastOp(l) + 1, Len(l))))

\* no operand that follows "/" in the chain is zero
RECURSIVE DivisorsNonZero(_)
DivisorsNonZero(l) ==
  ~HasOp(l) \/
    /\ l[LastOp(l)] = "/" => Num(SubSeq(l, LastOp(l) + 1, Len(l))) # 0
    /\ DivisorsNonZero(SubSeq(l, 1, LastOp(l) - 1))

\* C3: a chain of operands joined by operators of one tier (+ and -, or
\* * and / with non-zero divisors) evaluates to its operands combined
\* strictly left to right.
C3_LeftAssociative ==
  \A k \in DOMAIN log :
    (log[k].line \in ChainLines /\ DivisorsNonZero(log[k].line))
      => log[k].out = Result(LeftToRight(log[k].line))

\* "3-2-1-1" has been evaluated and -1 printed (folding from the right gives 1)
C3_Witness == Logged(<<"3", "-", "2", "-", "1", "-", "1">>, Result(-1))

\* the mathematical value of a tree (a quotient by zero counted as 0)
RECURSIVE TreeValue(_)
TreeValue(e) ==
  IF e.node = "Literal" THEN e.value
  ELSE IF e.node = "Div"
    THEN IF TreeValue(e.right) = 0 THEN 0
         ELSE TruncQuot(TreeValue(e.left), TreeValue(e.right))
  ELSE Bin(CASE e.node = "Plus" -> "+" [] e.node = "Minus" -> "-" [] e.node = "Star" -> "*",
           TreeValue(e.left), TreeValue(e.right))

\* the tree contains a division node whose right operand has value 0
RECURSIVE HasZeroDivisor(_)
HasZeroDivisor(e) ==
  /\ e.node # "Literal"
  /\ \/ HasZeroDivisor(e.left)
     \/ HasZeroDivisor(e.right)
     \/ e.node = "Div" /\ TreeValue(e.right) = 0

LastOut == log[Len(log)].out

\* C4: evaluating a tree fails with "Division by zero" exactly when the tree
\* contains a division node whose right operand evaluates to 0, whatever
\* encloses it; otherwise an integer is printed.
C4_DivisionByZero ==
  [][pc = "interpret" =>
       /\ HasZeroDivisor(expression) <=> LastOut' = DivisionByZeroError
       /\ ~HasZeroDivisor(expression) => LastOut'.kind = "Result"]_vars

\* "0*(3/0)" has been evaluated and "Division by zero" printed
C4_Witness == Logged(<<"0", "*", "(", "3", "/", "0", ")">>, DivisionByZeroError)

\* characters the lexer accepts
Accepted == Whitespace \cup Digits \cup Symbols
HasBadChar(l) == \E j \in DOMAIN l : l[j] \notin Accepted
FirstBadChar(l) ==
  l[CHOOSE j \in DOMAIN l : l[j] \notin Accepted /\ \A m \in 1..(j - 1) : l[m] \in Accepted]

\* C5: tokenize fails exactly when the text holds a character that is not
\* whitespace, a digit, an operator or a parenthesis; the character reported
\* is the leftmost such one, and no token sequence reaches the parser.
C5_LexError ==
  /\ \A k \in DOMAIN log :
       /\ HasBadChar(log[k].line) <=> log[k].out.what = UnknownCharacter("").what
       /\ HasBadChar(log[k].line)
            => log[k].out = UnknownCharacter(FirstBadChar(log[k].line))
  /\ pc \in {"parse", "interpret"} => ~HasBadChar(expr)

\* "1a@" has been rejected reporting 'a'
C5_Witness == Logged(<<"1", "a", "@">>, UnknownCharacter("a"))

IsDigits(l) == l # <<>> /\ \A j \in DOMAIN l : l[j] \in Digits
AllSpace(l) == \A j \in DOMAIN l : l[j] \in Whitespace

\* token types that cannot start a primary
NonPrimary == {"PLUSOPERATOR", "MINUSOPERATOR", "STAROPERATOR", "SLASHOPERATOR",
               "RPARENTHESIS"}
NonPrimaryChar == {"+", "-", "*", "/", ")"}

\* l is nothing, "(", or a literal followed by a binary operator: the token
\* after l stands where a primary is required
LeadsToPrimary(l) ==
  \/ l = <<>>
  \/ l = <<"(">>
  \/ /\ Len(l) \in 2..10
     /\ IsDigits(SubSeq(l, 1, Len(l) - 1))
     /\ l[Len(l)] \in Ops

\* C6: a Plus, Minus, Star, Slash or RParen token where a primary is required
\* makes parsing fail with InvalidPrimary: at every call of parsePrimary, and
\* so for a line that starts with such a token or has it right after an
\* operator or "(" (no unary minus).
C6_NoUnaryMinus ==
  /\ [][(InFrame("parsePrimary", "entry") /\ ~atEnd /\ token.type \in NonPrimary)
          => (pc' = "getline" /\ LastOut' = InvalidPrimary)]_vars
  /\ [](\A k \in DOMAIN log :
          \A p \in 0..(Len(log[k].line) - 1) :
            (/\ ~HasBadChar(log[k].line)
             /\ LeadsToPrimary(SubSeq(log[k].line, 1, p))
             /\ log[k].line[p + 1] \in NonPrimaryChar)
              => log[k].out = InvalidPrimary)

\* "2*-" has been rejected with InvalidPrimary
C6_Witness == Logged(<<"2", "*", "-">>, InvalidPrimary)

\* C7: when parsePrimary has consumed "(" and parsed the sub-expression, and
\* the next token is absent or is not RParen, parsing fails with
\* ExpectedCloseParen and no tree is returned.
C7_UnterminatedGroup ==
  [][(InFrame("parsePrimary", "close") /\ (atEnd \/ token.type # "RPARENTHESIS"))
       => (pc' = "getline" /\ expression' = NoTree /\ LastOut' = ExpectedCloseParen)]_vars

\* "(1+2" has been rejected with ExpectedCloseParen
C7_Witness == Logged(<<"(", "1", "+", "2">>, ExpectedCloseParen)

\* C8: when the tokens are exhausted where a primary is required, parsing
\* fails with UnexpectedEnd and nothing else: at every call of parsePrimary,
\* and so for an empty or all-whitespace line and for a line that ends in a
\* binary operator or in "(" right where a primary is required.
C8_UnexpectedEnd ==
  /\ [][(InFrame("parsePrimary", "entry") /\ atEnd)
          => (pc' = "getline" /\ LastOut' = UnexpectedEnd)]_vars
  /\ [](\A k \in DOMAIN log :
          \/ AllSpace(log[k].line)
          \/ (log[k].line # <<"(">> /\ LeadsToPrimary(log[k].line))
          \/ (Len(log[k].line) > 1 /\ log[k].line[Len(log[k].line)] = "("
                /\ LeadsToPrimary(SubSeq(log[k].line, 1, Len(log[k].line) - 1)))
          => log[k].out = UnexpectedEnd)

\* "1+" has been rejected with UnexpectedEnd
C8_Witness == Logged(<<"1", "+">>, UnexpectedEnd)

RECURSIVE Expands(_, _, _)
Expands(l, m, prev) ==
  IF m = <<>> THEN l = <<>>
  ELSE \/ /\ l # <<>>
          /\ Head(l) = Head(m)
          /\ Expands(Tail(l), Tail(m), Head(l))
       \/ /\ Head(m) \in Whitespace
          /\ ~(prev \in Digits /\ l # <<>> /\ Head(l) \in Digits)
          /\ Expands(l, Tail(m), prev)

\* the same integer result, or the same kind of error
SameOutcome(a, b) == a.kind = b.kind /\ a.what = b.what /\ a.val = b.val

\* C10: inserting whitespace before the first token, after the last token
\* or between two adjacent tokens of a line does not change its outcome.
C10_WhitespaceInsensitive ==
  \A j \in DOMAIN log : \A k \in DOMAIN log :
    Expands(log[j].line, log[k].line, "")
      => SameOutcome(log[j].out, log[k].out)

\* "1+2" and "1+<tab>2" have both been evaluated, each printing 3
C10_Witness ==
  /\ Logged(<<"1", "+", "2">>, Result(3))
  /\ Logged(<<"1", "+", "\t", "2">>, Result(3))

\* the failure kinds of the taxonomy
Taxonomy(o) ==
  \/ o.what = UnknownCharacter("").what
  \/ o \in {UnexpectedEnd, ExpectedCloseParen, InvalidPrimary, DivisionByZeroError}

\* C11: every line yields one integer or exactly one failure of the kinds
\* LexError, UnexpectedEnd, ExpectedCloseParen, InvalidPrimary and
\* DivisionByZero; tokenizing, parsing (with the conversion of the digit
\* strings) and evaluating raise no other failure.
C11_ClosedTaxonomy ==
  \A k \in DOMAIN log :
    \/ log[k].out.kind = "Result"
    \/ log[k].out.kind = "Error" /\ Taxonomy(log[k].out)

\* the tree has a division node
RECURSIVE ContainsDiv(_)
ContainsDiv(e) ==
  /\ e.node # "Literal"
  /\ (e.node = "Div" \/ ContainsDiv(e.left) \/ ContainsDiv(e.right))

\* C12: every division by a non-zero right operand yields the quotient
\* rounded toward zero, also when one operand is negative: a tree with
\* divisions and no zero divisor evaluates to its value under TruncQuot.
C12_TruncatingDivision ==
  [][(pc = "interpret" /\ ContainsDiv(expression) /\ ~HasZeroDivisor(expression))
       => LastOut' = Result(TreeValue(expression))]_vars

\* "(1-8)/2" has been evaluated and -3 printed (rounding down gives -4)
C12_Witness == Logged(<<"(", "1", "-", "8", ")", "/", "2">>, Result(-3))

\* the outcome of each line of Pool, read off its text
PoolTable ==
  {<<<<"1", "+", "2">>, Result(3)>>,
   <<<<"2", "*", "3">>, Result(6)>>,
   <<<<"1", "/", "0">>, DivisionByZeroError>>,
   <<<<"@">>, UnknownCharacter("@")>>,
   <<<<>>, UnexpectedEnd>>,
   <<<<"(", "1">>, ExpectedCloseParen>>,
   <<<<"-", "1">>, InvalidPrimary>>,
   <<<<"1", " ", "2">>, Result(1)>>,
   <<<<"1", "+">>, UnexpectedEnd>>,
   <<StrBig(INT_MAX \div 10, (INT_MAX % 10) + 1), StoiOutOfRange>>}

\* C13: the outcome of a line depends on its text only: it is the same as
\* first line and after any lines, failed ones included, a line submitted
\* twice gives the same outcome twice, and between two lines nothing of the
\* lexer, the parser or the tree is left.
C13_NoStateAcrossCalls ==
  /\ \A k \in DOMAIN log :
       /\ \A t \in PoolTable : log[k].line = t[1] => log[k].out = t[2]
       /\ \A j \in DOMAIN log : log[j].line = log[k].line => log[j].out = log[k].out
  /\ pc = "getline" =>
       /\ i = 0 /\ tokens = <<>> /\ num = <<>> /\ ~inNum
       /\ idx = 0 /\ stack = <<>> /\ expression = NoTree

\* "1+2" printed 3 before and after a division by zero
C13_Witness ==
  /\ Len(log) = 3
  /\ log[1] = [line |-> <<"1", "+", "2">>, out |-> Result(3)]
  /\ log[2] = [line |-> <<"1", "/", "0">>, out |-> DivisionByZeroError]
  /\ log[3] = [line |-> <<"1", "+", "2">>, out |-> Result(3)]

ParseErrors == {UnexpectedEnd, ExpectedCloseParen, InvalidPrimary, StoiOutOfRange}

Consumed(k) ==
  /\ trace[k].op = "next"
  /\ trace[k].to = trace[k].from + 1
  /\ ~(k < Len(trace) /\ trace[k + 1].op = "rewind")

\* C15: single-step look-back. The cursor stays within 0..number of tokens;
\* the cursor events of one parse follow one another without a gap, starting
\* at 0; a call of next never moves the cursor back; every call of rewind
\* comes immediately after a call of next that returned a token, finds
\* idx > 0 and puts the cursor back where that call of next found it (so no
\* two calls of rewind are adjacent); and the tokens consumed, fetched and not
\* given back, are consumed at strictly increasing positions: each at most
\* once and in input order.
C15_SingleStepLookBack ==
  /\ idx \in 0..Len(tokens)
  /\ (pc = "parse" /\ trace # <<>>) => trace[Len(trace)].to = idx
  /\ \A k \in DOMAIN trace :
       /\ trace[k].from = (IF k = 1 THEN 0 ELSE trace[k - 1].to)
       /\ trace[k].op = "next" => trace[k].to \in {trace[k].from, trace[k].from + 1}
       /\ trace[k].op = "rewind" =>
            /\ k > 1
            /\ trace[k - 1].op = "next"
            /\ trace[k - 1].to = trace[k - 1].from + 1
            /\ trace[k].from > 0
            /\ trace[k].to = trace[k - 1].from
  /\ pc # "parse" =>
       \A j, k \in DOMAIN trace :
         (j < k /\ Consumed(j) /\ Consumed(k)) => trace[j].from < trace[k].from

\* the parse of "1*2+3" is over: parseFactor looked at "+" and gave it back,
\* parseTerm consumed it, and both loops ended on the end of the tokens
C15_Witness ==
  /\ pc = "interpret"
  /\ expr = <<"1", "*", "2", "+", "3">>
  /\ \E k \in DOMAIN trace : trace[k] = [op |-> "rewind", from |-> 4, to |-> 3]
  /\ \E k \in DOMAIN trace : Consumed(k) /\ trace[k].from = 3

\* the text with all whitespace removed
Strip(l) == SelectSeq(l, LAMBDA c : c \notin Whitespace)

\* the texts of the tokens, one after the other
RECURSIVE Texts(_)
Texts(ts) == IF ts = <<>> THEN <<>> ELSE Texts(SubSeq(ts, 1, Len(ts) - 1)) \o ts[Len(ts)].value

\* the positions of l where a maximal run of digits starts, and where the run
\* starting at p ends
RunStarts(l) == {p \in DOMAIN l : l[p] \in Digits /\ (p = 1 \/ l[p - 1] \notin Digits)}
RunEnd(l, p) ==
  CHOOSE q \in p..Len(l) :
    /\ \A r \in p..q : l[r] \in Digits
    /\ q = Len(l) \/ l[q + 1] \notin Digits

\* the positions where a lexeme starts, and the k-th of them from the left
LexemeStarts(l) == RunStarts(l) \cup {p \in DOMAIN l : l[p] \in Symbols}
NthStart(l, k) ==
  CHOOSE p \in LexemeStarts(l) : Cardinality({q \in LexemeStarts(l) : q <= p}) = k

\* the kind of token each operator or parenthesis character stands for
Kind ==
  [c \in Symbols |->
     CASE c = "+" -> "PLUSOPERATOR"  [] c = "-" -> "MINUSOPERATOR"
       [] c = "*" -> "STAROPERATOR"  [] c = "/" -> "SLASHOPERATOR"
       [] c = "(" -> "LPARENTHESIS"  [] c = ")" -> "RPARENTHESIS"]

\* ts is the maximal-munch tokenization of l
MaximalMunch(l, ts) ==
  /\ Texts(ts) = Strip(l)
  /\ Len(ts) = Cardinality(LexemeStarts(l))
  /\ \A k \in DOMAIN ts :
       LET p == NthStart(l, k) IN
         /\ l[p] \in Digits =>
              ts[k] = [type |-> "INTEGER", value |-> SubSeq(l, p, RunEnd(l, p))]
         /\ l[p] \in Symbols => ts[k] = [type |-> Kind[l[p]], value |-> <<l[p]>>]
         /\ (k < Len(ts) /\ ts[k].type = "INTEGER" /\ ts[k + 1].type = "INTEGER") =>
              /\ RunEnd(l, p) + 1 < NthStart(l, k + 1)
              /\ \A r \in (RunEnd(l, p) + 1)..(NthStart(l, k + 1) - 1) : l[r] \in Whitespace

\* C16: tokenizer maximal munch. For every line over the accepted alphabet
\* the tokens handed to the parser are, in input order, one Integer token per
\* maximal run of digits with the run as its text (leading zeros kept) and
\* one single-character token of the matching kind per operator or
\* parenthesis; their texts concatenated are the line without its
\* whitespace, and two Integer tokens are adjacent only across whitespace.
C16_MaximalMunch ==
  [][(pc = "tokenize" /\ pc' = "parse") => MaximalMunch(expr, tokens')]_vars

\* "01 2" has been tokenized into the Integer tokens "01" and "2"
C16_Witness ==
  /\ pc = "parse"
  /\ expr = <<"0", "1", " ", "2">>
  /\ tokens = <<Token("INTEGER", <<"0", "1">>), Token("INTEGER", <<"2">>)>>

\* C17: parentheses are transparent. When a valid expression and the same
\* expression inside one or more pairs of parentheses are both given, they
\* print the same outcome (the same integer, or "Division by zero" both
\* times) and parse() returned the same tree for both: the group adds no
\* node. "((2+3)*(4-1))" prints 15.
C17_ParenthesesTransparent ==
  \A k \in DOMAIN log :
    /\ log[k].line = <<"(", "(", "2", "+", "3", ")", "*", "(", "4", "-", "1", ")", ")">>
         => log[k].out = Result(15)
    /\ \A j \in DOMAIN log :
         (/\ log[j].line \in WrapBase
          /\ \E n \in 1..MaxWrap : log[k].line = Wrapped(log[j].line, n))
           => /\ log[k].out = log[j].out
              /\ log[k].out.kind = "Result" \/ log[k].out = DivisionByZeroError
              /\ trees[k] = trees[j]
              /\ trees[k] # NoTree

\* "2+3*4" and "((2+3*4))" have both printed 14
C17_Witness ==
  /\ Len(log) = 2
  /\ log[1] = [line |-> <<"2", "+", "3", "*", "4">>, out |-> Result(14)]
  /\ log[2] = [line |-> <<"(", "(", "2", "+", "3", "*", "4", ")", ")">>, out |-> Result(14)]
  /\ trees[2] = PlusBinaryOp(LiteralExpression(2),
                             StarBinaryOp(LiteralExpression(3), LiteralExpression(4)))

\* lines not yet answered: still to be read, or being processed; exit is read
\* and not answered
Owed ==
  Len(stdin) + (IF pc \in {"tokenize", "parse", "interpret"} THEN 1 ELSE 0)
             + (IF pc = "exited" THEN 1 ELSE 0)

\* a variant of the loops of Lexer::tokenize
LexerMeasure ==
  3 * (Len(expr) - i) + (IF ~inNum THEN 2 ELSE IF num = <<>> THEN 1 ELSE 3)

\* a variant of the parser: four for each token not yet consumed, and for each
\* frame what it can still do without consuming one
Weight(f) ==
  CASE f.fn = "parseTerm" /\ f.at = "entry" -> 3
    [] f.fn = "parseTerm" /\ f.at = "loop" -> 1
    [] f.fn = "parseFactor" /\ f.at = "entry" -> 2
    [] f.fn = "parseFactor" /\ f.at = "loop" -> 2
    [] f.fn = "parsePrimary" /\ f.at = "entry" -> 1
    [] OTHER -> 0
RECURSIVE Weights(_)
Weights(st) == IF st = <<>> THEN 0 ELSE Weights(SubSeq(st, 1, Len(st) - 1)) + Weight(st[Len(st)])
ParserMeasure == 4 * (Len(tokens) - idx) + Weights(stack)

\* C18: termination. Every line read is answered by exactly one integer or
\* one error and the program reaches its end after the last line. In the
\* lexer the index never moves back, every step of the outer loop and of
\* the digit loop moves it forward (a number is closed only after at least
\* one digit was taken), and a variant decreases at every step. In the
\* parser a loop iteration that takes an operator and a call of
\* parsePrimary that takes a literal or a parenthesis move the cursor
\* forward by one, the cursor never ends a step further back than it began
\* (a break nets zero), a variant that starts at 4 * tokens + 3 decreases at
\* every step, and the parser calls next at most that many times.
C18_Termination ==
  /\ <>(pc = "exited" /\ stdin = <<>>)
  /\ [][/\ Len(log') + Owed' = Len(log) + Owed
        /\ log' # log => (Len(log') = Len(log) + 1 /\ LastOut'.kind \in {"Result", "Error"})]_vars
  /\ [][(pc = "tokenize" /\ pc' = "tokenize") =>
          /\ LexerMeasure' < LexerMeasure
          /\ i' >= i
          /\ (~inNum /\ ~inNum') => i' = i + 1
          /\ (inNum /\ inNum') => i' = i + 1
          /\ (inNum /\ ~inNum') =>
               (num # <<>> /\ i >= Len(num) /\ num = SubSeq(expr, i - Len(num) + 1, i))]_vars
  /\ [](pc = "tokenize" => LexerMeasure \in 0..(3 * Len(expr) + 2))
  /\ [][(pc = "parse" /\ pc' = "parse") =>
          /\ ParserMeasure' < ParserMeasure
          /\ idx' \in {idx, idx + 1}
          /\ (top.at = "loop" /\ Len(stack') > Len(stack)) => idx' = idx + 1
          /\ (top.fn = "parsePrimary" /\ top.at \in {"entry", "close"}) => idx' = idx + 1]_vars
  /\ [][(pc = "parse" /\ pc' = "interpret") =>
          (ParserMeasure' < ParserMeasure /\ idx' \in {idx, idx + 1})]_vars
  /\ [](pc = "parse" =>
          /\ ParserMeasure \in 0..(4 * Len(tokens) + 3)
          /\ Len(trace) <= 4 * Len(tokens) + 3 - ParserMeasure)

\* the three lines "1+2", "1/0", "1+2" have been answered and exit was read
C18_Witness ==
  /\ pc = "exited" /\ stdin = <<>>
  /\ Len(log) = 3
  /\ log[2] = [line |-> <<"1", "/", "0">>, out |-> DivisionByZeroError]

====
